---- MODULE Spec2Model ----
(***************************************************************************)
(* Token lifecycle of the contact-book backend: JWT creation and           *)
(* verification (src/src/services/auth.py) and the auth routes that use    *)
(* them (src/src/api/auth.py): register, login, refresh-token,             *)
(* confirmed_email, reset_password, plus the bearer dependency             *)
(* get_current_user and the admin gate get_current_admin_user.             *)
(*                                                                         *)
(* Spec is the session lifecycle, SpecReset the same with password resets, *)
(* SpecLogins two logins in flight at once, SpecVerify and SpecCreate the  *)
(* token functions on their own.                                           *)
(*                                                                         *)
(* A token string is modelled by the record of everything jwt.encode       *)
(* signs: the claims (sub, iat, exp, token_type) and the key.  HS256 over  *)
(* a JSON payload is deterministic, so two tokens are the same string      *)
(* exactly when these records are equal.  python-jose writes datetimes as  *)
(* whole seconds, while datetime.now(UTC) is finer: the clock counts ticks *)
(* and Seconds() truncates them.                                           *)
(***************************************************************************)
EXTENDS Integers, Sequences, FiniteSets, TLC

VARIABLES now, users, queue, outbox, logins, resp, inflight, cache

vars == <<now, users, queue, outbox, logins, resp, inflight, cache>>

----------------------------------------------------------------------------
(* Bounds of the model *)

\* clock advances allowed in one behaviour
MaxClock == 2
\* latest tick at which the tokens given to a verification were created
MaxIssue == 1

(* Program constants *)

\* settings.ACCESS_TOKEN_EXPIRE_MINUTES
ACCESS_TOKEN_EXPIRE_MINUTES == 30
\* settings.REFRESH_TOKEN_EXPIRE_MINUTES
REFRESH_TOKEN_EXPIRE_MINUTES == 30
\* timedelta(days=7) of create_email_token
EMAIL_TOKEN_EXPIRE_DAYS == 7

\* ticks of datetime.now(UTC) per second of a JWT timestamp
TicksPerSecond == 2

SecondsPerMinute == 60
SecondsPerDay == 86400

\* settings.JWT_SECRET, and a key that is not it
secret_key == "JWT_SECRET"
OtherKey == "other key"
Keys == {secret_key, OtherKey}

\* strings a client may send as username or as email
Names == {"a", "b"}
Passwords == {"p", "q"}

\* Python's None: for a claim that is absent from a payload, and for a row
\* or a token that is absent
NoClaim == "<none>"
None == [none |-> TRUE]

----------------------------------------------------------------------------
(* The clock *)

\* timegm(dt.utctimetuple()): a datetime as whole seconds
Seconds(t) == t \div TicksPerSecond

\* timedelta(minutes=m), timedelta(days=d) in ticks
Minutes(m) == m * SecondsPerMinute * TicksPerSecond
Days(d) == d * SecondsPerDay * TicksPerSecond

\* the steps the clock is advanced by: one tick, and just past the lifetime
\* of a session token
LongStep == Minutes(ACCESS_TOKEN_EXPIRE_MINUTES) + TicksPerSecond
ClockSteps == {1, LongStep}

\* how many advances a clock value stands for (the long step is far larger
\* than any number of ticks the bound allows)
Advances(t) == (t \div LongStep) + (t % LongStep)

----------------------------------------------------------------------------
(* jose.jwt *)

\* jwt.encode(claims, key): datetimes become whole seconds, the result is a
\* function of the claims and the key
jwt_encode(claims, key) ==
    [sub |-> claims.sub, token_type |-> claims.token_type,
     iat |-> Seconds(claims.iat), exp |-> Seconds(claims.exp), key |-> key]

JWTError == [error |-> "JWTError"]

\* jwt.decode(token, key): JWTError when the signature does not verify under
\* key or when exp < now (in whole seconds); the payload otherwise
jwt_decode(token, key, t) ==
    IF token.key # key THEN JWTError
    ELSE IF token.exp < Seconds(t) THEN JWTError
    ELSE [sub |-> token.sub, token_type |-> token.token_type,
          iat |-> token.iat, exp |-> token.exp]

----------------------------------------------------------------------------
(* Token creation, src/src/services/auth.py *)

\* (a variant that marks the token as a refresh token)
create_email_token_typed(data, t1, t2) ==
    jwt_encode([sub |-> data.sub, token_type |-> "refresh",
                iat |-> t2, exp |-> t1 + Days(EMAIL_TOKEN_EXPIRE_DAYS)],
               secret_key)

\* create_email_token(data): datetime.now(UTC) is read twice, first for exp
\* (at t1) and then for iat (at t2)
create_email_token(data, t1, t2) ==
    jwt_encode([sub |-> data.sub, token_type |-> NoClaim,
                iat |-> t2, exp |-> t1 + Days(EMAIL_TOKEN_EXPIRE_DAYS)],
               secret_key)

\* (a variant that forgets to add the lifetime)
create_token_expire_now(data, expires_delta, token_type, t) ==
    jwt_encode([sub |-> data.sub, token_type |-> token_type,
                iat |-> t, exp |-> t],
               secret_key)

\* AuthService._create_token(data, expires_delta, token_type) at clock t
create_token(data, expires_delta, token_type, t) ==
    jwt_encode([sub |-> data.sub, token_type |-> token_type,
                iat |-> t, exp |-> t + expires_delta],
               secret_key)

\* AuthService.create_access_token(data, expires_delta): a falsy
\* expires_delta (None, or a zero timedelta) selects the configured default
create_access_token(data, expires_delta, t) ==
    IF expires_delta # 0
        THEN create_token(data, expires_delta, "access", t)
        ELSE create_token(data, Minutes(ACCESS_TOKEN_EXPIRE_MINUTES), "access", t)

\* AuthService.create_refresh_token(data, expires_delta)
create_refresh_token(data, expires_delta, t) ==
    IF expires_delta # 0
        THEN create_token(data, expires_delta, "refresh", t)
        ELSE create_token(data, Minutes(REFRESH_TOKEN_EXPIRE_MINUTES), "refresh", t)

----------------------------------------------------------------------------
(* The users table *)

\* UsersRepository.get_user_by_username / get_user_by_email: the row with
\* that (unique) username or email, None when there is none
repo_get_user_by_username(db, username) ==
    IF \E u \in db : u.username = username
        THEN CHOOSE u \in db : u.username = username
        ELSE None

repo_get_user_by_email(db, email) ==
    IF \E u \in db : u.email = email
        THEN CHOOSE u \in db : u.email = email
        ELSE None

\* (a variant whose new row is confirmed from the start)
repo_create_user_confirmed(db, body, hashed) ==
    db \cup {[id |-> Cardinality(db) + 1, username |-> body.username,
              email |-> body.email, hashed_password |-> hashed,
              refresh_token |-> None, confirmed |-> TRUE,
              user_role |-> "user", avatar |-> "gravatar"]}

\* UsersRepository.create_user(body, hashed, avatar): a new row, not
\* confirmed, with the default role, no refresh token and the Gravatar image
repo_create_user(db, body, hashed) ==
    db \cup {[id |-> Cardinality(db) + 1, username |-> body.username,
              email |-> body.email, hashed_password |-> hashed,
              refresh_token |-> None, confirmed |-> FALSE,
              user_role |-> "user", avatar |-> "gravatar"]}

\* UsersRepository.confirmed_email(email): the row's confirmed flag set
repo_confirmed_email(db, email) ==
    {IF u.email = email THEN [u EXCEPT !.confirmed = TRUE] ELSE u : u \in db}

\* (a variant that also asks for a new confirmation)
repo_reset_password_unconfirming(db, email, hashed) ==
    {IF u.email = email
        THEN [u EXCEPT !.hashed_password = hashed, !.confirmed = FALSE]
        ELSE u : u \in db}

\* (a variant that also ends the user's session)
repo_reset_password_revoking(db, email, hashed) ==
    {IF u.email = email
        THEN [u EXCEPT !.hashed_password = hashed, !.refresh_token = None]
        ELSE u : u \in db}

\* UsersRepository.reset_password(email, hashed): the row's hashed_password
\* replaced
repo_reset_password(db, email, hashed) ==
    {IF u.email = email THEN [u EXCEPT !.hashed_password = hashed] ELSE u : u \in db}

\* Hash.get_password_hash / Hash.verify_password: an opaque one-way function
get_password_hash(password) == [hash_of |-> password]
verify_password(password, hashed) == hashed = get_password_hash(password)

(* UserService, src/src/services/users.py *)

get_user_by_username(db, username) == repo_get_user_by_username(db, username)
get_user_by_email(db, email) == repo_get_user_by_email(db, email)

\* UserService.register_user(body): the table after it; unchanged (None is
\* returned) when the username is taken
register_user(db, body) ==
    IF repo_get_user_by_username(db, body.username) # None
        THEN db
        ELSE repo_create_user(db, body, get_password_hash(body.password))

\* UserService.confirmed_email(email)
service_confirmed_email(db, email) == repo_confirmed_email(db, email)

\* UserService.reset_password(email, password)
service_reset_password(db, email, password) ==
    repo_reset_password(db, email, get_password_hash(password))

----------------------------------------------------------------------------
(* Token verification, src/src/services/auth.py *)

\* (a variant that selects the row by username alone)
verify_refresh_token_any_stored(refresh_token, db, t) ==
    LET payload == jwt_decode(refresh_token, secret_key, t)
    IN  IF payload = JWTError THEN None
        ELSE IF payload.sub = NoClaim \/ payload.token_type # "refresh" THEN None
        ELSE repo_get_user_by_username(db, payload.sub)

\* (a variant without the token_type check)
verify_refresh_token_any_type(refresh_token, db, t) ==
    LET payload == jwt_decode(refresh_token, secret_key, t)
    IN  IF payload = JWTError THEN None
        ELSE IF payload.sub = NoClaim THEN None
        ELSE IF \E u \in db : u.username = payload.sub
                                /\ u.refresh_token = refresh_token
            THEN CHOOSE u \in db : u.username = payload.sub
                                    /\ u.refresh_token = refresh_token
            ELSE None

\* (a variant that does not let jwt.decode check exp)
verify_refresh_token_ignoring_expiry(refresh_token, db, t) ==
    LET payload == jwt_decode(refresh_token, secret_key, 0)
    IN  IF payload = JWTError THEN None
        ELSE IF payload.sub = NoClaim \/ payload.token_type # "refresh" THEN None
        ELSE IF \E u \in db : u.username = payload.sub
                                /\ u.refresh_token = refresh_token
            THEN CHOOSE u \in db : u.username = payload.sub
                                    /\ u.refresh_token = refresh_token
            ELSE None

\* AuthService.verify_refresh_token(refresh_token, db) at clock t: the row
\* selected by username == sub AND refresh_token == the presented string
verify_refresh_token(refresh_token, db, t) ==
    LET payload == jwt_decode(refresh_token, secret_key, t)
    IN  IF payload = JWTError THEN None
        ELSE IF payload.sub = NoClaim \/ payload.token_type # "refresh" THEN None
        ELSE IF \E u \in db : u.username = payload.sub
                                /\ u.refresh_token = refresh_token
            THEN CHOOSE u \in db : u.username = payload.sub
                                    /\ u.refresh_token = refresh_token
            ELSE None

\* (a variant that reads the claims without verifying the token)
get_email_from_token_unverified(token, t) ==
    IF token.sub = NoClaim THEN "<KeyError>" ELSE token.sub

\* (a variant that rejects a token carrying a token_type)
get_email_from_token_email_only(token, t) ==
    LET payload == jwt_decode(token, secret_key, t)
    IN  IF payload = JWTError THEN NoClaim
        ELSE IF payload.token_type # NoClaim THEN NoClaim
        ELSE IF payload.sub = NoClaim THEN "<KeyError>"
        ELSE payload.sub

\* AuthService.get_email_from_token(token): payload["sub"], None on
\* JWTError; a payload without sub raises KeyError
KeyError == "<KeyError>"
get_email_from_token(token, t) ==
    LET payload == jwt_decode(token, secret_key, t)
    IN  IF payload = JWTError THEN NoClaim
        ELSE IF payload.sub = NoClaim THEN KeyError
        ELSE payload.sub

----------------------------------------------------------------------------
(* Responses *)

\* what a handler answers: the status, the detail of an HTTPException or
\* the message of a success, and the body's tokens and user
Response(op, status, detail) ==
    [op |-> op, status |-> status, detail |-> detail,
     access_token |-> None, refresh_token |-> None, token_type |-> NoClaim,
     username |-> NoClaim]

NoResponse == Response("none", 0, "")

\* get_current_user(token, db) at clock t
get_current_user(token, db, t) ==
    LET payload == jwt_decode(token, secret_key, t)
    IN  IF payload = JWTError
            THEN Response("get_current_user", 401, "Invalid token")
        ELSE IF payload.sub = NoClaim
            THEN Response("get_current_user", 401, "User not found")
        ELSE IF repo_get_user_by_username(db, payload.sub) = None
            THEN Response("get_current_user", 401, "User not found")
        ELSE [Response("get_current_user", 200, "")
                EXCEPT !.username = repo_get_user_by_username(db, payload.sub).username]

\* a raised HTTPException
HTTPException(status_code, detail) == [status_code |-> status_code, detail |-> detail]

\* (a variant that lets every role through)
get_current_admin_user_admits_all(current_user) == current_user

\* get_current_admin_user(current_user): the user, or 403 for a role other
\* than UserRole.ADMIN
get_current_admin_user(current_user) ==
    IF current_user.user_role # "admin"
        THEN HTTPException(403, "No access rights")
        ELSE current_user

\* GET /admin, a route behind Depends(get_current_admin_user), which
\* depends on get_current_user: the admin's row, or the exception raised
read_admin(token, db, t) ==
    LET current == get_current_user(token, db, t)
    IN  IF current.status # 200
            THEN HTTPException(current.status, current.detail)
            ELSE get_current_admin_user(repo_get_user_by_username(db, current.username))

----------------------------------------------------------------------------
(* The routes of src/src/api/auth.py.  A handler is an operator from the   *)
(* table, the request and the clock to the table it commits, its response  *)
(* and the background tasks it queues.                                     *)

Handled(db, response, tasks) == [db |-> db, resp |-> response, tasks |-> tasks]

\* a queued send_email background task
EmailTask(user, template) ==
    [email |-> user.email, username |-> user.username, template |-> template]

\* POST /register
register(db, body) ==
    LET created == register_user(db, body)
    IN  IF get_user_by_email(db, body.email) # None
            THEN Handled(db, Response("register", 409, "Account already exists"), {})
        ELSE IF get_user_by_username(db, body.username) # None
            THEN Handled(db, Response("register", 409, "Account already exists"), {})
        ELSE Handled(created,
                     [Response("register", 201, "")
                        EXCEPT !.username = body.username],
                     {EmailTask(get_user_by_username(created, body.username),
                                "verify_email.html")})

\* (a variant that checks the confirmation before the password)
login_checks_confirmed_first(user, password) ==
    IF user = None THEN "Invalid username"
    ELSE IF ~user.confirmed THEN "Email wasn't confirmed"
    ELSE IF ~verify_password(password, user.hashed_password) THEN "Invalid password"
    ELSE ""

\* POST /login: the three checks, in the order of the code; "" when all pass
login_checks(user, password) ==
    IF user = None THEN "Invalid username"
    ELSE IF ~verify_password(password, user.hashed_password) THEN "Invalid password"
    ELSE IF ~user.confirmed THEN "Email wasn't confirmed"
    ELSE ""

\* (a variant that commits nothing)
store_refresh_token_skipped(db, user, refresh_token) == db

\* POST /login: user.refresh_token = refresh_token; await db.commit()
store_refresh_token(db, user, refresh_token) ==
    {IF u.id = user.id THEN [u EXCEPT !.refresh_token = refresh_token] ELSE u
        : u \in db}

\* (a variant that clears the stored token of a user it rejects)
login_clears_on_reject(db, form, t) ==
    LET user == get_user_by_username(db, form.username)
        failed == login_checks(user, form.password)
        access_token == create_access_token([sub |-> user.username], 0, t)
        refresh_token == create_refresh_token([sub |-> user.username], 0, t)
    IN  IF user = None
            THEN Handled(db, Response("login", 401, failed), {})
        ELSE IF failed # ""
            THEN Handled(store_refresh_token(db, user, None),
                         Response("login", 401, failed), {})
        ELSE Handled(store_refresh_token(db, user, refresh_token),
                     [Response("login", 200, "")
                        EXCEPT !.access_token = access_token,
                               !.refresh_token = refresh_token,
                               !.token_type = "bearer"],
                     {})

\* POST /login
login(db, form, t) ==
    LET user == get_user_by_username(db, form.username)
        failed == login_checks(user, form.password)
        access_token == create_access_token([sub |-> user.username], 0, t)
        refresh_token == create_refresh_token([sub |-> user.username], 0, t)
    IN  IF failed # ""
            THEN Handled(db, Response("login", 401, failed), {})
        ELSE Handled(store_refresh_token(db, user, refresh_token),
                     [Response("login", 200, "")
                        EXCEPT !.access_token = access_token,
                               !.refresh_token = refresh_token,
                               !.token_type = "bearer"],
                     {})

\* (a variant that rotates the refresh token)
new_token_rotating(db, request, t) ==
    LET user == verify_refresh_token(request.refresh_token, db, t)
        rotated == create_refresh_token([sub |-> user.username], 0, t + 1)
    IN  IF user = None
            THEN Handled(db, Response("new_token", 401,
                                      "Invalid or expired refresh token"), {})
        ELSE Handled(store_refresh_token(db, user, rotated),
                     [Response("new_token", 200, "")
                        EXCEPT !.access_token =
                                    create_access_token([sub |-> user.username], 0, t),
                               !.refresh_token = rotated,
                               !.token_type = "bearer"],
                     {})

\* POST /refresh-token
new_token(db, request, t) ==
    LET user == verify_refresh_token(request.refresh_token, db, t)
    IN  IF user = None
            THEN Handled(db, Response("new_token", 401,
                                      "Invalid or expired refresh token"), {})
        ELSE Handled(db,
                     [Response("new_token", 200, "")
                        EXCEPT !.access_token =
                                    create_access_token([sub |-> user.username], 0, t),
                               !.refresh_token = request.refresh_token,
                               !.token_type = "bearer"],
                     {})

\* (a variant without the check of user.confirmed)
confirmed_email_unchecked(db, token, t) ==
    LET email == get_email_from_token(token, t)
        user == get_user_by_email(db, email)
    IN  IF email = KeyError
            THEN Handled(db, Response("confirmed_email", 500, "KeyError"), {})
        ELSE IF user = None
            THEN Handled(db, Response("confirmed_email", 400, "Verification error"), {})
        ELSE Handled(service_confirmed_email(db, email),
                     Response("confirmed_email", 200, "Email confirmed!"), {})

\* (a variant that answers a confirmed user as it answers an unknown one)
confirmed_email_same_reason(db, token, t) ==
    LET email == get_email_from_token(token, t)
        user == get_user_by_email(db, email)
    IN  IF email = KeyError
            THEN Handled(db, Response("confirmed_email", 500, "KeyError"), {})
        ELSE IF user = None \/ user.confirmed
            THEN Handled(db, Response("confirmed_email", 400, "Verification error"), {})
        ELSE Handled(service_confirmed_email(db, email),
                     Response("confirmed_email", 200, "Email confirmed!"), {})

\* GET /confirmed_email/{token}
confirmed_email(db, token, t) ==
    LET email == get_email_from_token(token, t)
        user == get_user_by_email(db, email)
    IN  IF email = KeyError
            THEN Handled(db, Response("confirmed_email", 500, "KeyError"), {})
        ELSE IF user = None
            THEN Handled(db, Response("confirmed_email", 400, "Verification error"), {})
        ELSE IF user.confirmed
            THEN Handled(db, Response("confirmed_email", 400,
                                      "Your email has already been confirmed"), {})
        ELSE Handled(service_confirmed_email(db, email),
                     Response("confirmed_email", 200, "Email confirmed!"), {})

\* (a variant that accepts a reset token once: the row is left alone when
\* its password is no longer the one set at registration)
reset_password_single_use(db, data, t) ==
    LET email == get_email_from_token(data.token, t)
        user == get_user_by_email(db, email)
    IN  IF email = KeyError
            THEN Handled(db, Response("reset_password", 500, "KeyError"), {})
        ELSE IF email = NoClaim \/ user = None
            THEN Handled(db, Response("reset_password", 400, "Verification error"), {})
        ELSE IF user.hashed_password # get_password_hash("p")
            THEN Handled(db, Response("reset_password", 400, "Verification error"), {})
        ELSE Handled(service_reset_password(db, email, data.password),
                     Response("reset_password", 200, "Password reset confirmed!"), {})

\* POST /reset_password
reset_password(db, data, t) ==
    LET email == get_email_from_token(data.token, t)
        user == get_user_by_email(db, email)
    IN  IF email = KeyError
            THEN Handled(db, Response("reset_password", 500, "KeyError"), {})
        ELSE IF email = NoClaim
            THEN Handled(db, Response("reset_password", 400, "Verification error"), {})
        ELSE IF user = None
            THEN Handled(db, Response("reset_password", 400, "Verification error"), {})
        ELSE Handled(service_reset_password(db, email, data.password),
                     Response("reset_password", 200, "Password reset confirmed!"), {})

\* (a variant that answers a confirmed account like an unknown email)
request_email_generic(db, body) ==
    LET user == get_user_by_email(db, body.email)
    IN  IF user = None \/ user.confirmed
            THEN Handled(db, Response("request_email", 200,
                    "If this email exists, a confirmation link has been sent."), {})
        ELSE Handled(db, Response("request_email", 200,
                    "If this email exists, a confirmation link has been sent."),
                     {EmailTask(user, "verify_email.html")})

\* POST /request_email
request_email(db, body) ==
    LET user == get_user_by_email(db, body.email)
    IN  IF user = None
            THEN Handled(db, Response("request_email", 200,
                    "If this email exists, a confirmation link has been sent."), {})
        ELSE IF user.confirmed
            THEN Handled(db, Response("request_email", 200,
                    "Your email is already confirmed."), {})
        ELSE Handled(db, Response("request_email", 200,
                    "If this email exists, a confirmation link has been sent."),
                     {EmailTask(user, "verify_email.html")})

\* POST /request_password_reset
request_password_reset(db, body) ==
    LET user == get_user_by_email(db, body.email)
    IN  Handled(db, Response("request_password_reset", 200,
                    "If this email exists, a reset link has been sent."),
                IF user # None THEN {EmailTask(user, "reset_password.html")} ELSE {})

----------------------------------------------------------------------------
(* POST /login in the steps between which another request can run: the     *)
(* lookup and the three checks, the creation of the tokens, the commit of   *)
(* user.refresh_token, and the return.  A request in flight is the record   *)
(* of the handler's local variables.                                        *)

Requests == {1, 2}

Idle ==
    [pc |-> "idle", form |-> None, user |-> None, access_token |-> None,
     refresh_token |-> None, committed |-> 0, resp |-> NoResponse]

NoRequests == [r \in Requests |-> Idle]

\* user = get_user_by_username(form.username) and the three checks
login_lookup(db, form) ==
    LET user == get_user_by_username(db, form.username)
        failed == login_checks(user, form.password)
    IN  IF failed # ""
            THEN [Idle EXCEPT !.pc = "done", !.form = form,
                              !.resp = Response("login", 401, failed)]
            ELSE [Idle EXCEPT !.pc = "checked", !.form = form, !.user = user]

\* create_access_token and create_refresh_token at clock t
login_create_tokens(q, t) ==
    [q EXCEPT !.pc = "created",
              !.access_token = create_access_token([sub |-> q.user.username], 0, t),
              !.refresh_token = create_refresh_token([sub |-> q.user.username], 0, t)]

\* (a variant that goes on to the return when the commit raised)
login_commit_ignoring_failure(db, q, ok, n) ==
    IF ok
        THEN [db |-> store_refresh_token(db, q.user, q.refresh_token),
              q |-> [q EXCEPT !.pc = "committed", !.committed = n]]
        ELSE [db |-> db, q |-> [q EXCEPT !.pc = "committed"]]

\* user.refresh_token = refresh_token; await db.commit(): the n-th commit
\* of the table when ok, an exception that ends the request when not
login_commit(db, q, ok, n) ==
    IF ok
        THEN [db |-> store_refresh_token(db, q.user, q.refresh_token),
              q |-> [q EXCEPT !.pc = "committed", !.committed = n]]
        ELSE [db |-> db,
              q |-> [q EXCEPT !.pc = "done",
                              !.resp = Response("login", 500, "Internal Server Error")]]

\* return {"access_token": ..., "refresh_token": ..., "token_type": "bearer"}
login_return(q) ==
    [q EXCEPT !.pc = "done",
              !.resp = [Response("login", 200, "")
                            EXCEPT !.access_token = q.access_token,
                                   !.refresh_token = q.refresh_token,
                                   !.token_type = "bearer"]]

----------------------------------------------------------------------------
(* POST /register in the steps between which another request can run: the  *)
(* two lookups of the handler, the lookup of UserService.register_user, and *)
(* the INSERT with the return.                                              *)

IntegrityError == "<IntegrityError>"

\* (a variant for a table without the unique constraints)
insert_user_unconstrained(db, body, hashed) ==
    [raised |-> "", db |-> repo_create_user(db, body, hashed)]

\* the INSERT of create_user under unique=True on username and on email:
\* the table with the new row, or the table as it was and IntegrityError
insert_user(db, body, hashed) ==
    IF \E u \in db : u.username = body.username \/ u.email = body.email
        THEN [raised |-> IntegrityError, db |-> db]
        ELSE [raised |-> "", db |-> repo_create_user(db, body, hashed)]

\* if await user_service.get_user_by_email(body.email): raise 409
register_check_email(db, body) ==
    IF get_user_by_email(db, body.email) # None
        THEN [Idle EXCEPT !.pc = "done", !.form = body,
                          !.resp = Response("register", 409, "Account already exists")]
        ELSE [Idle EXCEPT !.pc = "email_free", !.form = body]

\* if await user_service.get_user_by_username(body.username): raise 409
register_check_username(db, q) ==
    IF get_user_by_username(db, q.form.username) # None
        THEN [q EXCEPT !.pc = "done",
                       !.resp = Response("register", 409, "Account already exists")]
        ELSE [q EXCEPT !.pc = "username_free"]

\* register_user: exist = await self.repo.get_user_by_username(...); when it
\* is found the service returns None and the handler's new_user.email raises
register_user_exist(db, q) ==
    IF get_user_by_username(db, q.form.username) # None
        THEN [q EXCEPT !.pc = "done",
                       !.resp = Response("register", 500, "AttributeError")]
        ELSE [q EXCEPT !.pc = "hashed"]

\* await self.repo.create_user(body, hashed, avatar), add_task(send_email)
\* and the return; an IntegrityError ends the request before add_task
register_create(db, q) ==
    LET inserted == insert_user(db, q.form, get_password_hash(q.form.password))
        created == inserted.db
    IN  IF inserted.raised # ""
            THEN [db |-> db, tasks |-> {},
                  q |-> [q EXCEPT !.pc = "done",
                                  !.resp = Response("register", 500, IntegrityError)]]
            ELSE [db |-> created,
                  tasks |-> {EmailTask(get_user_by_username(created, q.form.username),
                                       "verify_email.html")},
                  q |-> [q EXCEPT !.pc = "done",
                                  !.user = get_user_by_username(created, q.form.username),
                                  !.resp = [Response("register", 201, "")
                                                EXCEPT !.username = q.form.username]]]

----------------------------------------------------------------------------
(* GET /confirmed_email/{token} in the steps between which another request *)
(* can run: the decoding, the lookup and the two checks, then the write of *)
(* confirmed with the return.  The request's token is kept in form.        *)

\* email = get_email_from_token(token); user = get_user_by_email(email); the
\* checks of user and of user.confirmed
confirmed_email_lookup(db, token, t) ==
    LET h == confirmed_email(db, token, t)
    IN  IF h.resp.status # 200
            THEN [Idle EXCEPT !.pc = "done", !.form = token, !.resp = h.resp]
            ELSE [Idle EXCEPT !.pc = "checked", !.form = token,
                              !.user = get_user_by_email(db, get_email_from_token(token, t))]

\* await user_service.confirmed_email(email); return "Email confirmed!"
confirmed_email_commit(db, q) ==
    [db |-> service_confirmed_email(db, q.user.email),
     q |-> [q EXCEPT !.pc = "done",
                     !.resp = Response("confirmed_email", 200, "Email confirmed!")]]

----------------------------------------------------------------------------
(* The routes of src/src/api/users.py *)

\* CACHE_EXPIRATION, in seconds
CACHE_EXPIRATION == 60

\* the ids the table assigns
UserIds == {1, 2}

\* cache = {}: no entry for any user id (cache.get gives None)
NoCache == [id \in UserIds |-> None]

\* UserResponse.model_validate(user).model_dump(): the public columns
UserResponse(user) ==
    [id |-> user.id, username |-> user.username, email |-> user.email,
     avatar |-> user.avatar]

\* (a variant that still serves an entry that is exactly CACHE_EXPIRATION old)
me_serves_at_expiration(c, user, t) ==
    LET cached_entry == c[user.id]
    IN  IF cached_entry # None
            /\ t - cached_entry.timestamp <= CACHE_EXPIRATION * TicksPerSecond
            THEN [cache |-> c, data |-> cached_entry.data]
            ELSE [cache |-> [c EXCEPT ![user.id] =
                                [data |-> UserResponse(user), timestamp |-> t]],
                  data |-> UserResponse(user)]

\* GET /me for the authenticated user at time.time() = t: the cache after
\* the request and the data returned
me(c, user, t) ==
    LET cached_entry == c[user.id]
    IN  IF cached_entry # None
            /\ t - cached_entry.timestamp < CACHE_EXPIRATION * TicksPerSecond
            THEN [cache |-> c, data |-> cached_entry.data]
            ELSE [cache |-> [c EXCEPT ![user.id] =
                                [data |-> UserResponse(user), timestamp |-> t]],
                  data |-> UserResponse(user)]

\* UsersRepository.update_avatar_url(email, url): the row's avatar replaced
repo_update_avatar_url(db, email, url) ==
    {IF u.email = email THEN [u EXCEPT !.avatar = url] ELSE u : u \in db}

\* UserService.update_avatar_url(email, url)
update_avatar_url(db, email, url) == repo_update_avatar_url(db, email, url)

\* PATCH /avatar behind Depends(get_current_admin_user); url is what the
\* upload service returned
update_avatar_user(db, token, url, t) ==
    LET user == read_admin(token, db, t)
    IN  IF "status_code" \in DOMAIN user
            THEN Handled(db, Response("update_avatar_user", user.status_code,
                                      user.detail), {})
            ELSE Handled(update_avatar_url(db, user.email, url),
                         [Response("update_avatar_user", 200, "")
                            EXCEPT !.username = user.username], {})

----------------------------------------------------------------------------
(* The state machine *)

\* the session tokens the server has returned: those of the logins, and the
\* access token of the latest response; and the tokens it has mailed
SessionTokens ==
    ({l.access_token : l \in logins} \cup {l.refresh_token : l \in logins}
        \cup {resp.access_token}) \ {None}

Minted == SessionTokens \cup outbox

\* the same claims signed with a key that is not the server's
Forged(token) == [token EXCEPT !.key = OtherKey]

\* what a client can present: a token the server produced, or a forgery of
\* an email token or of a stored refresh token
Presentable ==
    Minted \cup {Forged(token) :
                    token \in (outbox \cup {u.refresh_token : u \in users}) \ {None}}

\* bodies of POST /register: a username equal to its email, a second username
\* on the same email, and a second email
RegisterForms ==
    {body \in [username : Names, email : Names, password : {"p"}] :
        ~(body.username = "a" /\ body.email = "b")}
LoginForms == [username : Names, password : Passwords]

Init ==
    /\ now = 0
    /\ users = {}
    /\ queue = {}
    /\ outbox = {}
    /\ logins = {}
    /\ resp = NoResponse
    /\ inflight = NoRequests
    /\ cache = NoCache

\* time passes
Tick(d) ==
    /\ Advances(now + d) <= MaxClock
    /\ now' = now + d
    /\ UNCHANGED <<users, queue, outbox, logins, resp, inflight, cache>>

Register(body) ==
    LET h == register(users, body)
    IN  /\ users' = h.db
        /\ queue' = queue \cup h.tasks
        /\ resp' = h.resp
        /\ UNCHANGED <<now, outbox, logins, inflight, cache>>

\* the background task send_email: the token is created (the clock is read
\* twice, d ticks apart) and mailed
SendEmail(task, d) ==
    /\ task \in queue
    /\ Advances(now + d) <= MaxClock
    /\ now' = now + d
    /\ queue' = queue \ {task}
    /\ outbox' = outbox \cup {create_email_token([sub |-> task.email], now, now + d)}
    /\ UNCHANGED <<users, logins, resp, inflight, cache>>

Login(form) ==
    LET h == login(users, form, now)
    IN  /\ users' = h.db
        /\ resp' = h.resp
        /\ logins' = IF h.resp.status = 200
                        THEN logins \cup {[username |-> form.username,
                                            access_token |-> h.resp.access_token,
                                            refresh_token |-> h.resp.refresh_token]}
                        ELSE logins
        /\ UNCHANGED <<now, queue, outbox, inflight, cache>>

NewToken(token) ==
    LET h == new_token(users, [refresh_token |-> token], now)
    IN  /\ users' = h.db
        /\ resp' = h.resp
        /\ UNCHANGED <<now, queue, outbox, logins, inflight, cache>>

ConfirmedEmail(token) ==
    LET h == confirmed_email(users, token, now)
    IN  /\ users' = h.db
        /\ resp' = h.resp
        /\ UNCHANGED <<now, queue, outbox, logins, inflight, cache>>

ResetPassword(token, password) ==
    LET h == reset_password(users, [token |-> token, password |-> password], now)
    IN  /\ users' = h.db
        /\ resp' = h.resp
        /\ UNCHANGED <<now, queue, outbox, logins, inflight, cache>>

\* a request to a route that depends on get_current_user
GetCurrentUser(token) ==
    /\ resp' = get_current_user(token, users, now)
    /\ UNCHANGED <<now, users, queue, outbox, logins, inflight, cache>>

Next ==
    \/ \E d \in ClockSteps : Tick(d)
    \/ \E body \in RegisterForms : Register(body)
    \/ \E task \in queue, d \in {0, 1} : SendEmail(task, d)
    \/ \E form \in LoginForms : Login(form)
    \/ \E token \in Presentable : NewToken(token)
    \/ \E token \in Presentable : ConfirmedEmail(token)
    \/ \E token \in Presentable : GetCurrentUser(token)

Spec == Init /\ [][Next]_vars

\* the same routes together with POST /reset_password (and without the
\* read-only bearer dependency)
NextReset ==
    \/ \E d \in ClockSteps : Tick(d)
    \/ \E body \in RegisterForms : Register(body)
    \/ \E task \in queue, d \in {0, 1} : SendEmail(task, d)
    \/ \E form \in LoginForms : Login(form)
    \/ \E token \in Presentable : NewToken(token)
    \/ \E token \in Presentable : ConfirmedEmail(token)
    \/ \E token \in Presentable, password \in Passwords : ResetPassword(token, password)

SpecReset == Init /\ [][NextReset]_vars

----------------------------------------------------------------------------
(* Verification on its own: verify_refresh_token applied to any token the  *)
(* creation functions can produce, or a forgery of one, against a table    *)
(* whose refresh_token column holds any such value.  The functions keep no *)
(* state between calls: a behaviour is one call on the inputs drawn.       *)

IssueTimes == 0..MaxIssue
\* an expires_delta argument: none (the default applies) or one second
Deltas == {0, TicksPerSecond}
ClaimSets == [sub : Names \cup {NoClaim}]

AccessTokens ==
    {create_access_token(d, e, t) : d \in ClaimSets, e \in Deltas, t \in IssueTimes}
RefreshTokens ==
    {create_refresh_token(d, e, t) : d \in ClaimSets, e \in Deltas, t \in IssueTimes}
\* the second clock read of create_email_token is the first or a tick later
EmailTokens ==
    {create_email_token(d, t, t + r) : d \in ClaimSets, t \in IssueTimes, r \in {0, 1}}

Signed == AccessTokens \cup RefreshTokens \cup EmailTokens
VerifyTokens == Signed \cup {Forged(token) : token \in Signed}

\* the clock at a verification: around the creation, around the end of a
\* one-second lifetime, and around the end of the default lifetime
VerifyTimes ==
    {t + d : t \in IssueTimes,
             d \in {0, TicksPerSecond, 2 * TicksPerSecond,
                    Minutes(REFRESH_TOKEN_EXPIRE_MINUTES),
                    Minutes(REFRESH_TOKEN_EXPIRE_MINUTES) + TicksPerSecond}}

\* UserRole
UserRoles == {"user", "admin"}

\* a table of two confirmed users
Row(id, name, stored) ==
    [id |-> id, username |-> name, email |-> name,
     hashed_password |-> get_password_hash("p"), refresh_token |-> stored,
     confirmed |-> TRUE, user_role |-> "user", avatar |-> "gravatar"]

InitVerify ==
    /\ now \in VerifyTimes
    /\ \E s \in VerifyTokens \cup {None}, other \in BOOLEAN, role \in UserRoles :
            users = {[Row(1, "a", s) EXCEPT !.user_role = role],
                     Row(2, "b", IF other THEN s ELSE None)}
    /\ queue = {}
    /\ outbox = {}
    /\ logins = {}
    /\ resp = NoResponse
    /\ inflight = NoRequests
    /\ cache = NoCache

VerifyRefreshToken(token) ==
    /\ resp = NoResponse
    /\ resp' = [op |-> "verify_refresh_token", token |-> token,
                user |-> verify_refresh_token(token, users, now)]
    /\ UNCHANGED <<now, users, queue, outbox, logins, inflight, cache>>

GetEmailFromToken(token) ==
    /\ resp = NoResponse
    /\ resp' = [op |-> "get_email_from_token", token |-> token,
                email |-> get_email_from_token(token, now)]
    /\ UNCHANGED <<now, users, queue, outbox, logins, inflight, cache>>

ReadAdmin(token) ==
    /\ resp = NoResponse
    /\ resp' = [op |-> "read_admin", token |-> token,
                result |-> read_admin(token, users, now)]
    /\ UNCHANGED <<now, users, queue, outbox, logins, inflight, cache>>

\* POST /refresh-token with any token, against the table drawn
RefreshToken(token) ==
    /\ resp = NoResponse
    /\ resp' = [op |-> "refresh_token", token |-> token,
                result |-> new_token(users, [refresh_token |-> token], now).resp]
    /\ UNCHANGED <<now, users, queue, outbox, logins, inflight, cache>>

CreateEmailToken(data, r) ==
    /\ resp = NoResponse
    /\ resp' = [op |-> "create_email_token", data |-> data, at |-> now,
                token |-> create_email_token(data, now, now + r)]
    /\ UNCHANGED <<now, users, queue, outbox, logins, inflight, cache>>

NextVerify ==
    \/ \E token \in VerifyTokens : VerifyRefreshToken(token)
    \/ \E token \in VerifyTokens : GetEmailFromToken(token)
    \/ \E token \in VerifyTokens : ReadAdmin(token)
    \/ \E token \in VerifyTokens : RefreshToken(token)
    \/ \E data \in ClaimSets, r \in {0, 1} : CreateEmailToken(data, r)

SpecVerify == InitVerify /\ [][NextVerify]_vars

----------------------------------------------------------------------------
(* Creation on its own: create_access_token and create_refresh_token       *)
(* applied to any claims, with and without an expires_delta, at any clock. *)

InitCreate ==
    /\ now \in VerifyTimes
    /\ users = {}
    /\ queue = {}
    /\ outbox = {}
    /\ logins = {}
    /\ resp = NoResponse
    /\ inflight = NoRequests
    /\ cache = NoCache

\* data is the caller's dict as the call leaves it (_create_token works on
\* data.copy())
CreateAccessToken(data, expires_delta) ==
    /\ resp = NoResponse
    /\ resp' = [op |-> "create_access_token", data |-> data,
                expires_delta |-> expires_delta, at |-> now,
                token |-> create_access_token(data, expires_delta, now)]
    /\ UNCHANGED <<now, users, queue, outbox, logins, inflight, cache>>

CreateRefreshToken(data, expires_delta) ==
    /\ resp = NoResponse
    /\ resp' = [op |-> "create_refresh_token", data |-> data,
                expires_delta |-> expires_delta, at |-> now,
                token |-> create_refresh_token(data, expires_delta, now)]
    /\ UNCHANGED <<now, users, queue, outbox, logins, inflight, cache>>

NextCreate ==
    \/ \E data \in ClaimSets, e \in Deltas : CreateAccessToken(data, e)
    \/ \E data \in ClaimSets, e \in Deltas : CreateRefreshToken(data, e)

SpecCreate == InitCreate /\ [][NextCreate]_vars

----------------------------------------------------------------------------
(* Two logins in flight at once, over a table of two confirmed users. *)

LoginStart(r, form) ==
    /\ inflight[r].pc = "idle"
    /\ inflight' = [inflight EXCEPT ![r] = login_lookup(users, form)]
    /\ resp' = IF inflight'[r].pc = "done" THEN inflight'[r].resp ELSE resp
    /\ UNCHANGED <<now, users, queue, outbox, logins, cache>>

LoginCreateTokens(r) ==
    /\ inflight[r].pc = "checked"
    /\ inflight' = [inflight EXCEPT ![r] = login_create_tokens(inflight[r], now)]
    /\ UNCHANGED <<now, users, queue, outbox, logins, resp, cache>>

LoginCommit(r, ok) ==
    LET n == Cardinality({o \in Requests : inflight[o].committed > 0}) + 1
        h == login_commit(users, inflight[r], ok, n)
    IN  /\ inflight[r].pc = "created"
        /\ users' = h.db
        /\ inflight' = [inflight EXCEPT ![r] = h.q]
        /\ resp' = IF h.q.pc = "done" THEN h.q.resp ELSE resp
        /\ UNCHANGED <<now, queue, outbox, logins, cache>>

LoginReturn(r) ==
    /\ inflight[r].pc = "committed"
    /\ inflight' = [inflight EXCEPT ![r] = login_return(inflight[r])]
    /\ resp' = inflight'[r].resp
    /\ logins' = logins \cup {[username |-> inflight[r].form.username,
                                access_token |-> inflight[r].access_token,
                                refresh_token |-> inflight[r].refresh_token]}
    /\ UNCHANGED <<now, users, queue, outbox, cache>>

InitLogins ==
    /\ now = 0
    /\ users = {Row(1, "a", None), Row(2, "b", None)}
    /\ queue = {}
    /\ outbox = {}
    /\ logins = {}
    /\ resp = NoResponse
    /\ inflight = NoRequests
    /\ cache = NoCache

NextLogins ==
    \/ Tick(1)
    \/ \E r \in Requests, form \in LoginForms : LoginStart(r, form)
    \/ \E r \in Requests : LoginCreateTokens(r)
    \/ \E r \in Requests, ok \in BOOLEAN : LoginCommit(r, ok)
    \/ \E r \in Requests : LoginReturn(r)

SpecLogins == InitLogins /\ [][NextLogins]_vars

----------------------------------------------------------------------------
(* Two registrations in flight at once, over an empty table. *)

RegisterStart(r, body) ==
    /\ inflight[r].pc = "idle"
    /\ inflight' = [inflight EXCEPT ![r] = register_check_email(users, body)]
    /\ resp' = IF inflight'[r].pc = "done" THEN inflight'[r].resp ELSE resp
    /\ UNCHANGED <<now, users, queue, outbox, logins, cache>>

RegisterCheckUsername(r) ==
    /\ inflight[r].pc = "email_free"
    /\ inflight' = [inflight EXCEPT ![r] = register_check_username(users, inflight[r])]
    /\ resp' = IF inflight'[r].pc = "done" THEN inflight'[r].resp ELSE resp
    /\ UNCHANGED <<now, users, queue, outbox, logins, cache>>

RegisterUserExist(r) ==
    /\ inflight[r].pc = "username_free"
    /\ inflight' = [inflight EXCEPT ![r] = register_user_exist(users, inflight[r])]
    /\ resp' = IF inflight'[r].pc = "done" THEN inflight'[r].resp ELSE resp
    /\ UNCHANGED <<now, users, queue, outbox, logins, cache>>

RegisterCreate(r) ==
    LET h == register_create(users, inflight[r])
    IN  /\ inflight[r].pc = "hashed"
        /\ users' = h.db
        /\ queue' = queue \cup h.tasks
        /\ inflight' = [inflight EXCEPT ![r] = h.q]
        /\ resp' = h.q.resp
        /\ UNCHANGED <<now, outbox, logins, cache>>

NextRegisters ==
    \/ \E r \in Requests, body \in RegisterForms : RegisterStart(r, body)
    \/ \E r \in Requests : RegisterCheckUsername(r)
    \/ \E r \in Requests : RegisterUserExist(r)
    \/ \E r \in Requests : RegisterCreate(r)

SpecRegisters == Init /\ [][NextRegisters]_vars

----------------------------------------------------------------------------
(* Two confirmations in flight at once, over a table of two registered     *)
(* users whose verification mails have been delivered.  The clock moves by *)
(* one tick or to just past the lifetime of an email token.                *)

WeekStep == Days(EMAIL_TOKEN_EXPIRE_DAYS) + TicksPerSecond
WeekSteps == {1, WeekStep}
WeekAdvances(t) == (t \div WeekStep) + (t % WeekStep)

InitConfirms ==
    /\ now = 0
    /\ users = {[Row(1, "a", None) EXCEPT !.confirmed = FALSE],
                [Row(2, "b", None) EXCEPT !.confirmed = FALSE]}
    /\ queue = {}
    /\ outbox = {create_email_token([sub |-> n], 0, 0) : n \in Names}
    /\ logins = {}
    /\ resp = NoResponse
    /\ inflight = NoRequests
    /\ cache = NoCache

TickWeek(d) ==
    /\ WeekAdvances(now + d) <= MaxClock
    /\ now' = now + d
    /\ UNCHANGED <<users, queue, outbox, logins, resp, inflight, cache>>

ConfirmStart(r, token) ==
    /\ inflight[r].pc = "idle"
    /\ inflight' = [inflight EXCEPT ![r] = confirmed_email_lookup(users, token, now)]
    /\ resp' = IF inflight'[r].pc = "done" THEN inflight'[r].resp ELSE resp
    /\ UNCHANGED <<now, users, queue, outbox, logins, cache>>

ConfirmCommit(r) ==
    LET h == confirmed_email_commit(users, inflight[r])
    IN  /\ inflight[r].pc = "checked"
        /\ users' = h.db
        /\ inflight' = [inflight EXCEPT ![r] = h.q]
        /\ resp' = h.q.resp
        /\ UNCHANGED <<now, queue, outbox, logins, cache>>

NextConfirms ==
    \/ \E d \in WeekSteps : TickWeek(d)
    \/ \E r \in Requests, token \in Presentable : ConfirmStart(r, token)
    \/ \E r \in Requests : ConfirmCommit(r)

SpecConfirms == InitConfirms /\ [][NextConfirms]_vars

----------------------------------------------------------------------------
(* Sessions and password resets of two confirmed users whose reset mails   *)
(* have been delivered.                                                    *)

InitSessions ==
    /\ now = 0
    /\ users = {Row(1, "a", None), Row(2, "b", None)}
    /\ queue = {}
    /\ outbox = {create_email_token([sub |-> n], 0, 0) : n \in Names}
    /\ logins = {}
    /\ resp = NoResponse
    /\ inflight = NoRequests
    /\ cache = NoCache

NextSessions ==
    \/ \E d \in ClockSteps : Tick(d)
    \/ \E form \in LoginForms : Login(form)
    \/ \E token \in Presentable : NewToken(token)
    \/ \E token \in Presentable, password \in Passwords : ResetPassword(token, password)
    \/ \E token \in Presentable : GetCurrentUser(token)

SpecSessions == InitSessions /\ [][NextSessions]_vars

----------------------------------------------------------------------------
(* The mail routes: one account is registered, asks for its verification   *)
(* and reset mails again, confirms, logs in and resets its password; the    *)
(* other email stays unknown.                                               *)

MailForms == {[username |-> "a", email |-> "a", password |-> "p"]}

RequestEmail(email) ==
    LET h == request_email(users, [email |-> email])
    IN  /\ users' = h.db
        /\ queue' = queue \cup h.tasks
        /\ resp' = h.resp
        /\ UNCHANGED <<now, outbox, logins, inflight, cache>>

RequestPasswordReset(email) ==
    LET h == request_password_reset(users, [email |-> email])
    IN  /\ users' = h.db
        /\ queue' = queue \cup h.tasks
        /\ resp' = h.resp
        /\ UNCHANGED <<now, outbox, logins, inflight, cache>>

NextMail ==
    \/ Tick(1)
    \/ \E body \in MailForms : Register(body)
    \/ \E email \in Names : RequestEmail(email)
    \/ \E email \in Names : RequestPasswordReset(email)
    \/ \E task \in queue, d \in {0, 1} : SendEmail(task, d)
    \/ \E form \in LoginForms : Login(form)
    \/ \E token \in Presentable : NewToken(token)
    \/ \E token \in Presentable : ConfirmedEmail(token)
    \/ \E token \in Presentable, password \in Passwords : ResetPassword(token, password)

SpecMail == Init /\ [][NextMail]_vars

----------------------------------------------------------------------------
(* The profile cache: two users holding access tokens read /me while the   *)
(* admin among them changes avatar.  The clock moves by one tick or by one  *)
(* tick less than CACHE_EXPIRATION.                                         *)

CacheStep == CACHE_EXPIRATION * TicksPerSecond - 1
CacheSteps == {1, CacheStep}
CacheAdvances(t) == (t \div CacheStep) + (t % CacheStep)

\* what the upload service can return
Urls == {"url1", "url2"}

ProfileRow(id, name, role) ==
    [id |-> id, username |-> name, email |-> name,
     hashed_password |-> get_password_hash("p"), refresh_token |-> None,
     confirmed |-> TRUE, user_role |-> role, avatar |-> "gravatar"]

\* the access tokens of the two users, and a forgery of each
ProfileTokens ==
    LET issued == {create_access_token([sub |-> n], 0, 0) : n \in Names}
    IN  issued \cup {Forged(token) : token \in issued}

InitProfile ==
    /\ now = 0
    /\ users = {ProfileRow(1, "a", "admin"), ProfileRow(2, "b", "user")}
    /\ queue = {}
    /\ outbox = {}
    /\ logins = {}
    /\ resp = NoResponse
    /\ inflight = NoRequests
    /\ cache = NoCache

TickCache(d) ==
    /\ CacheAdvances(now + d) <= MaxClock
    /\ now' = now + d
    /\ UNCHANGED <<users, queue, outbox, logins, resp, inflight, cache>>

Me(token) ==
    LET current == get_current_user(token, users, now)
        user == repo_get_user_by_username(users, current.username)
        h == me(cache, user, now)
    IN  /\ IF current.status # 200
                THEN /\ resp' = current
                     /\ cache' = cache
                ELSE /\ resp' = [op |-> "me", status |-> 200, id |-> user.id,
                                 data |-> h.data]
                     /\ cache' = h.cache
        /\ UNCHANGED <<now, users, queue, outbox, logins, inflight>>

UpdateAvatar(token, url) ==
    LET h == update_avatar_user(users, token, url, now)
    IN  /\ users' = h.db
        /\ resp' = h.resp
        /\ UNCHANGED <<now, queue, outbox, logins, inflight, cache>>

NextProfile ==
    \/ \E d \in CacheSteps : TickCache(d)
    \/ \E token \in ProfileTokens : Me(token)
    \/ \E token \in ProfileTokens, url \in Urls : UpdateAvatar(token, url)

SpecProfile == InitProfile /\ [][NextProfile]_vars

----------------------------------------------------------------------------
(* C1: verify_refresh_token returns a user U only if the token's signature *)
(* verifies under the configured secret, the token is not expired, its     *)
(* token_type is "refresh", its sub is U.username and U's stored           *)
(* refresh_token is the presented token; in every other case it returns    *)
(* None.                                                                   *)

VerifiedOnlyWhenAllHold ==
    resp.op = "verify_refresh_token" =>
        \/ resp.user = None
        \/ /\ resp.user \in users
           /\ resp.token.key = secret_key
           /\ resp.token.exp >= Seconds(now)
           /\ resp.token.token_type = "refresh"
           /\ resp.token.sub = resp.user.username
           /\ resp.user.refresh_token = resp.token

VerifiedSomeUser ==
    /\ resp.op = "verify_refresh_token"
    /\ resp.user # None

(* C3: a token produced by create_access_token is rejected by               *)
(* verify_refresh_token for every subject and every stored refresh_token,   *)
(* also when the stored value is the access token itself.                   *)

AccessTokenNeverVerifies ==
    (resp.op = "verify_refresh_token" /\ resp.token \in AccessTokens) =>
        resp.user = None

AccessTokenStoredAndPresented ==
    /\ resp.op = "verify_refresh_token"
    /\ resp.token \in AccessTokens
    /\ resp.token.exp >= Seconds(now)
    /\ \E u \in users : u.username = resp.token.sub /\ u.refresh_token = resp.token

----------------------------------------------------------------------------
(* Claims about the routes.  A step of a route is recognised by its action *)
(* (Login(form), NewToken(token), ...); the unprimed variables are the     *)
(* state the request finds, the primed ones the state and the response it  *)
(* leaves.                                                                 *)

\* the login of form gets past the three checks
Admitted(db, form) ==
    \E u \in db : /\ u.username = form.username
                  /\ verify_password(form.password, u.hashed_password)
                  /\ u.confirmed

(* C2: for every pair of successful logins of a user, once the later login *)
(* has committed, the refresh token the earlier login returned is rejected *)
(* by verify_refresh_token and by POST /refresh-token (401 "Invalid or     *)
(* expired refresh token"), whatever the clock values of the two logins,   *)
(* the same clock second included.                                         *)

EarlierRefreshTokenRejected ==
    [][resp'.op = "login" => \A form \in LoginForms :
        (resp'.status = 200 /\ Login(form)) =>
            \A l \in logins :
                l.username = form.username =>
                    /\ verify_refresh_token(l.refresh_token, users', now') = None
                    /\ new_token(users', [refresh_token |-> l.refresh_token], now').resp.status = 401
                    /\ new_token(users', [refresh_token |-> l.refresh_token], now').resp.detail
                            = "Invalid or expired refresh token"]_vars

(* C4: a token whose kind is not access (a refresh token, or an email      *)
(* token whose sub is an existing username) presented as the bearer        *)
(* credential to get_current_user is answered 401 and authenticates        *)
(* nobody.                                                                 *)

BearerMustBeAccessToken ==
    [][resp'.op = "get_current_user" => \A token \in Presentable :
        (token.token_type # "access"
            /\ GetCurrentUser(token)) =>
            /\ resp'.status = 401
            /\ resp'.username = NoClaim]_vars

(* C5: a login with an existing username, the matching password and        *)
(* confirmed = true returns an access token, a refresh token and           *)
(* token_type "bearer"; after it the user's stored refresh_token is the    *)
(* returned refresh token, which verify_refresh_token maps to that user.   *)

LoginSuccessStoresToken ==
    [][/\ resp'.op = "login" => \A form \in LoginForms :
            (Admitted(users, form) /\ Login(form)) =>
                /\ resp'.status = 200
                /\ resp'.access_token # None
                /\ resp'.refresh_token # None
                /\ resp'.token_type = "bearer"
                /\ \E u \in users' :
                        /\ u.username = form.username
                        /\ u.refresh_token = resp'.refresh_token
                        /\ verify_refresh_token(resp'.refresh_token, users', now') = u
       \* and whatever happens next, a stored token verifies while it is
       \* neither expired nor overwritten
       /\ \A u \in users' :
            (u.refresh_token # None /\ u.refresh_token.exp >= Seconds(now')) =>
                verify_refresh_token(u.refresh_token, users', now') = u]_vars

LoggedIn ==
    /\ resp.op = "login"
    /\ resp.status = 200
    /\ \E u \in users : u.refresh_token = resp.refresh_token

(* C6: a rejected login (unknown username, wrong password, or confirmed    *)
(* not true) issues no tokens and leaves every user record unchanged; a    *)
(* refresh token that was accepted before it is accepted after it.         *)

RejectedLoginChangesNothing ==
    [][resp'.op = "login" => \A form \in LoginForms :
        (~Admitted(users, form) /\ Login(form)) =>
            /\ resp'.status = 401
            /\ resp'.access_token = None
            /\ resp'.refresh_token = None
            /\ logins' = logins
            /\ users' = users
            /\ \A token \in Presentable :
                    verify_refresh_token(token, users, now) # None =>
                        verify_refresh_token(token, users', now')
                            = verify_refresh_token(token, users, now)]_vars

RejectedWhileRefreshTokenLive ==
    /\ resp.op = "login"
    /\ resp.status = 401
    /\ \E u \in users :
            /\ u.refresh_token # None
            /\ verify_refresh_token(u.refresh_token, users, now) = u

(* C7: login checks user-exists, then password-matches, then confirmed: an *)
(* unknown username is "Invalid username" whatever the password, a wrong   *)
(* password of an existing user is "Invalid password" whether or not the   *)
(* account is confirmed, and "Email wasn't confirmed" is returned only     *)
(* when the user exists and the password matched.                          *)

LoginCheckOrder ==
    [][resp'.op = "login" => \A form \in LoginForms :
        (Login(form)) =>
            LET known == \E u \in users : u.username = form.username
                matched == \E u \in users :
                                /\ u.username = form.username
                                /\ verify_password(form.password, u.hashed_password)
            IN  /\ ~known => (resp'.status = 401 /\ resp'.detail = "Invalid username")
                /\ (known /\ ~matched) =>
                        (resp'.status = 401 /\ resp'.detail = "Invalid password")
                /\ resp'.detail = "Email wasn't confirmed" =>
                        (resp'.status = 401 /\ known /\ matched)]_vars

WrongPasswordOfUnconfirmed ==
    /\ resp.op = "login"
    /\ resp.detail = "Invalid password"
    /\ users # {}
    /\ \A u \in users : ~u.confirmed /\ u.refresh_token = None

(* C8: a successful POST /refresh-token returns the presented refresh      *)
(* token unchanged and an access token whose sub is the username of the    *)
(* user verify_refresh_token found, and changes no user: the stored        *)
(* refresh_token is the same, so the same token verifies again.            *)

RefreshEchoesAndKeeps ==
    [][resp'.op = "new_token" => \A token \in Presentable :
        (verify_refresh_token(token, users, now) # None
            /\ NewToken(token)) =>
            /\ resp'.status = 200
            /\ resp'.refresh_token = token
            /\ resp'.token_type = "bearer"
            /\ resp'.access_token.token_type = "access"
            /\ resp'.access_token.sub
                    = verify_refresh_token(token, users, now).username
            /\ users' = users
            /\ verify_refresh_token(token, users', now')
                    = verify_refresh_token(token, users, now)]_vars

RefreshedLater ==
    /\ resp.op = "new_token"
    /\ resp.status = 200
    /\ resp.access_token \notin {l.access_token : l \in logins}
    /\ \E u \in users : u.refresh_token = resp.refresh_token

(* C9: POST /refresh-token with the refresh token most recently issued by  *)
(* login returns an access token that differs from the one that login      *)
(* returned, at every clock value of the refresh, the second of the login  *)
(* included.                                                               *)

RefreshedAccessTokenDiffers ==
    [][resp'.op = "new_token" => \A token \in Presentable :
        (resp'.status = 200 /\ NewToken(token)) =>
            \A l \in logins :
                l.refresh_token = token => resp'.access_token # l.access_token]_vars

(* C10: two sequential confirmation requests with the same valid email     *)
(* token for an unconfirmed user: the first returns "Email confirmed!" and *)
(* sets confirmed, the second is rejected with 400 "Your email has already *)
(* been confirmed".                                                        *)

ConfirmedOnceThenRejected ==
    [][resp'.op = "confirmed_email" => \A token \in Presentable :
        (ConfirmedEmail(token)) =>
            LET email == get_email_from_token(token, now)
                second == confirmed_email(users', token, now')
            IN  /\ (\E u \in users : u.email = email /\ ~u.confirmed) =>
                    /\ resp'.status = 200
                    /\ resp'.detail = "Email confirmed!"
                    /\ \A u \in users' : u.email = email => u.confirmed
                    /\ second.resp.status = 400
                    /\ second.resp.detail = "Your email has already been confirmed"
                    /\ second.db = users'
                /\ (\E u \in users : u.email = email /\ u.confirmed) =>
                    /\ resp'.status = 400
                    /\ resp'.detail = "Your email has already been confirmed"
                    /\ users' = users]_vars

ConfirmedTwice ==
    /\ resp.op = "confirmed_email"
    /\ resp.detail = "Your email has already been confirmed"
    /\ \E u \in users : u.confirmed

(* C11: a confirmation request for a user whose confirmed flag is already  *)
(* true is rejected with "Your email has already been confirmed", a reason *)
(* different from the "Verification error" given when no user matches the  *)
(* token's email, and leaves every field of every user unchanged.          *)

\* the token's email is read but no user has it
NoUserMatches(db, token, t) ==
    /\ get_email_from_token(token, t) # KeyError
    /\ \A u \in db : u.email # get_email_from_token(token, t)

AlreadyConfirmedDistinctFromUnknown ==
    [][resp'.op = "confirmed_email" => \A token \in Presentable :
        (ConfirmedEmail(token)) =>
            /\ (\E u \in users : /\ u.email = get_email_from_token(token, now)
                                  /\ u.confirmed) =>
                    /\ resp'.status = 400
                    /\ resp'.detail = "Your email has already been confirmed"
                    /\ users' = users
                    /\ \A other \in Presentable :
                            NoUserMatches(users, other, now) =>
                                confirmed_email(users, other, now).resp.detail
                                    # resp'.detail
            /\ NoUserMatches(users, token, now) =>
                    /\ resp'.status = 400
                    /\ resp'.detail = "Verification error"
                    /\ users' = users]_vars

AlreadyConfirmedWithSession ==
    /\ resp.op = "confirmed_email"
    /\ resp.detail = "Your email has already been confirmed"
    /\ \E u \in users : u.confirmed /\ u.refresh_token # None
    /\ \E other \in Presentable : NoUserMatches(users, other, now)

----------------------------------------------------------------------------
(* C12: get_email_from_token never raises: it returns the sub claim when   *)
(* the token verifies and None on every failure, a validly signed,         *)
(* unexpired token without a sub claim included.                           *)

GetEmailFromTokenNeverRaises ==
    resp.op = "get_email_from_token" =>
        /\ resp.email # KeyError
        /\ IF /\ resp.token.key = secret_key
              /\ resp.token.exp >= Seconds(now)
              /\ resp.token.sub # NoClaim
            THEN resp.email = resp.token.sub
            ELSE resp.email = NoClaim

(* C13: get_current_admin_user returns the user unchanged when user_role   *)
(* is ADMIN and fails with 403 "No access rights" for every other role;    *)
(* every authentication failure of get_current_user is a 401, and a valid  *)
(* access token of a non-admin user gets 403 on an admin-gated route,      *)
(* never 401 and never success.                                            *)

AdminGate ==
    resp.op = "read_admin" =>
        LET token == resp.token
            authentic == /\ token.key = secret_key
                         /\ token.exp >= Seconds(now)
                         /\ \E u \in users : u.username = token.sub
        IN  /\ ~authentic => resp.result.status_code = 401
            /\ authentic =>
                    \A u \in users : u.username = token.sub =>
                        /\ u.user_role = "admin" => resp.result = u
                        /\ u.user_role # "admin" =>
                                resp.result = HTTPException(403, "No access rights")
            /\ (authentic /\ token \in AccessTokens
                    /\ \E u \in users : u.username = token.sub /\ u.user_role # "admin")
                    => (resp.result \notin users /\ resp.result.status_code = 403)

NonAdminForbidden ==
    /\ resp.op = "read_admin"
    /\ resp.token \in AccessTokens
    /\ resp.result = HTTPException(403, "No access rights")
    /\ \E u \in users : u.user_role = "admin"

(* C14: a token created by create_access_token or create_refresh_token     *)
(* with an expires_delta of zero fails verification, and any token fails   *)
(* verification once the clock has passed its expires_at; a token verified *)
(* strictly before its expires_at passes.                                  *)

ZeroTtlOrExpiredFails ==
    /\ resp.op = "verify_refresh_token" =>
            \A d \in ClaimSets, e \in Deltas, t \in IssueTimes :
                (resp.token = create_refresh_token(d, e, t) /\ t <= now) =>
                    /\ (e = 0 \/ now > t + e) => resp.user = None
                    /\ (/\ e # 0
                        /\ now < t + e
                        /\ \E u \in users : /\ u.username = d.sub
                                             /\ u.refresh_token = resp.token)
                            => resp.user # None
    /\ resp.op = "read_admin" =>
            \A d \in ClaimSets, e \in Deltas, t \in IssueTimes :
                (resp.token = create_access_token(d, e, t) /\ t <= now) =>
                    /\ (e = 0 \/ now > t + e) => resp.result.status_code = 401
                    /\ (/\ e # 0
                        /\ now < t + e
                        /\ \E u \in users : u.username = d.sub)
                            => resp.result.status_code # 401

(* C15: without an explicit expires_delta, create_access_token produces    *)
(* token_type "access", iat = now and exp = now +                          *)
(* ACCESS_TOKEN_EXPIRE_MINUTES, and create_refresh_token produces          *)
(* token_type "refresh", iat = now and exp = now +                         *)
(* REFRESH_TOKEN_EXPIRE_MINUTES; the caller's claims are not mutated and   *)
(* sub is carried over unchanged.                                          *)

DefaultLifetimes ==
    /\ (resp.op = "create_access_token" /\ resp.expires_delta = 0) =>
            /\ resp.token.token_type = "access"
            /\ resp.token.iat = Seconds(resp.at)
            /\ resp.token.exp = Seconds(resp.at)
                    + ACCESS_TOKEN_EXPIRE_MINUTES * SecondsPerMinute
            /\ resp.token.sub = resp.data.sub
            /\ resp.token.key = secret_key
            /\ resp.data \in ClaimSets
    /\ (resp.op = "create_refresh_token" /\ resp.expires_delta = 0) =>
            /\ resp.token.token_type = "refresh"
            /\ resp.token.iat = Seconds(resp.at)
            /\ resp.token.exp = Seconds(resp.at)
                    + REFRESH_TOKEN_EXPIRE_MINUTES * SecondsPerMinute
            /\ resp.token.sub = resp.data.sub
            /\ resp.token.key = secret_key
            /\ resp.data \in ClaimSets

CreatedWithDefault ==
    /\ resp.op = "create_refresh_token"
    /\ resp.expires_delta = 0
    /\ resp.data.sub = "a"
    /\ Seconds(resp.at) > 0
    /\ resp.at % TicksPerSecond # 0

(* C16: create_email_token always produces a token whose exp is exactly 7  *)
(* days after issue and which has no token_type claim, so no email token   *)
(* is accepted by verify_refresh_token, whatever its sub and whatever      *)
(* refresh_token value is stored.                                          *)

EmailTokenNeverRefreshes ==
    /\ resp.op = "create_email_token" =>
            /\ resp.token.exp = Seconds(resp.at)
                    + EMAIL_TOKEN_EXPIRE_DAYS * SecondsPerDay
            /\ resp.token.token_type = NoClaim
            /\ resp.token.sub = resp.data.sub
            /\ \A stored \in {resp.token, None} :
                    verify_refresh_token(resp.token,
                                         {Row(1, "a", stored), Row(2, "b", stored)},
                                         now) = None
    /\ (resp.op = "verify_refresh_token" /\ resp.token \in EmailTokens) =>
            resp.user = None

EmailTokenStoredAndPresented ==
    /\ resp.op = "verify_refresh_token"
    /\ resp.token \in EmailTokens
    /\ resp.token.exp >= Seconds(now)
    /\ \E u \in users : u.username = resp.token.sub /\ u.refresh_token = resp.token

----------------------------------------------------------------------------
(* C17: a password-reset token is not consumed by use: for a token whose   *)
(* sub is an existing user's email, POST /reset_password succeeds on every *)
(* call made before the token expires, each call replacing hashed_password *)
(* with the hash of the supplied password; it is rejected with 400         *)
(* "Verification error" when the token does not verify or no user has that *)
(* email, and then no password changes.  Stated of every request that can  *)
(* be made in a reachable state, and of the request repeated after it.     *)

ResetTokenNotConsumed ==
    \A token \in Presentable, password \in Passwords :
        LET email == get_email_from_token(token, now)
            first == reset_password(users, [token |-> token, password |-> password], now)
        IN  /\ (\E u \in users : u.email = email) =>
                /\ first.resp.status = 200
                /\ first.resp.detail = "Password reset confirmed!"
                /\ first.db =
                        {IF u.email = email
                            THEN [u EXCEPT !.hashed_password = get_password_hash(password)]
                            ELSE u : u \in users}
                /\ \A again \in Passwords :
                        LET second == reset_password(first.db,
                                        [token |-> token, password |-> again], now)
                        IN  /\ second.resp.status = 200
                            /\ \A u \in second.db :
                                    u.email = email =>
                                        u.hashed_password = get_password_hash(again)
            /\ NoUserMatches(users, token, now) =>
                /\ first.resp.status = 400
                /\ first.resp.detail = "Verification error"
                /\ first.db = users

PasswordResetDone ==
    /\ resp.op = "reset_password"
    /\ resp.status = 200
    /\ now > 0
    /\ \E u \in users : /\ u.hashed_password = get_password_hash("q")
                         /\ u.refresh_token # None
    /\ \E u \in users : u.hashed_password = get_password_hash("p")

(* C20: in every reachable state and for every user, at most one refresh   *)
(* token string is accepted by verify_refresh_token for that user, the one *)
(* equal to the stored refresh_token, whatever logins, refreshes,          *)
(* confirmations and password resets have run.                             *)

AtMostOneLiveRefreshToken ==
    \A u \in users :
        LET accepted == {token \in Presentable :
                            verify_refresh_token(token, users, now) = u}
        IN  /\ Cardinality(accepted) <= 1
            /\ accepted \subseteq {u.refresh_token}

TwoIssuedOneLive ==
    /\ \E l1 \in logins, l2 \in logins :
            /\ l1.username = l2.username
            /\ l1.refresh_token # l2.refresh_token
            /\ l1.refresh_token.exp >= Seconds(now)
            /\ verify_refresh_token(l1.refresh_token, users, now) = None
            /\ verify_refresh_token(l2.refresh_token, users, now) # None
    /\ \E u \in users : u.hashed_password # get_password_hash("p")

----------------------------------------------------------------------------
(* C18: for two logins of the same user that interleave in any way, once   *)
(* both have committed the stored refresh_token is the refresh token of    *)
(* the login that committed last; that token is accepted by                *)
(* verify_refresh_token and the token of the login that committed first is *)
(* rejected.                                                               *)

LastCommitWins ==
    \A r \in Requests, o \in Requests :
        (/\ inflight[o].committed > 0
         /\ inflight[r].committed > inflight[o].committed
         /\ inflight[r].form.username = inflight[o].form.username) =>
            LET row == get_user_by_username(users, inflight[r].form.username)
            IN  /\ row.refresh_token = inflight[r].refresh_token
                /\ verify_refresh_token(inflight[r].refresh_token, users, now) = row
                /\ verify_refresh_token(inflight[o].refresh_token, users, now) = None

(* C19: login never returns tokens before the write of refresh_token has   *)
(* committed: when the commit fails, login returns no token; when login    *)
(* returns a refresh token, that token is the committed stored value at    *)
(* the moment of the return.                                               *)

ReturnedTokenIsStored ==
    [][\A r \in Requests :
        /\ LoginCommit(r, FALSE) =>
                /\ inflight'[r].pc = "done"
                /\ inflight'[r].resp.access_token = None
                /\ inflight'[r].resp.refresh_token = None
        /\ LoginReturn(r) =>
                get_user_by_username(users', inflight[r].form.username).refresh_token
                    = resp'.refresh_token]_vars

(* C19 as amended: when the commit fails, login returns no token; when     *)
(* login returns a refresh token, that token was committed as the user's   *)
(* stored value before the return, and the stored value is the token of    *)
(* the login of that user that committed last (the returned one unless a   *)
(* concurrent login of the same user committed after it).                  *)

ReturnedTokenWasCommitted ==
    \A r \in Requests :
        LET q == inflight[r]
            same == {o \in Requests :
                        /\ inflight[o].committed > 0
                        /\ inflight[o].form.username = q.form.username}
            last == CHOOSE o \in same :
                        \A x \in same : inflight[x].committed <= inflight[o].committed
        IN  /\ q.resp.status = 500 =>
                /\ q.resp.access_token = None
                /\ q.resp.refresh_token = None
                /\ q.committed = 0
            /\ q.resp.refresh_token # None =>
                /\ q.committed > 0
                /\ q.resp.refresh_token = q.refresh_token
                /\ get_user_by_username(users, q.form.username).refresh_token
                        = inflight[last].refresh_token

ReturnedAfterOverwrite ==
    \E r \in Requests, o \in Requests :
        /\ inflight[r].resp.status = 200
        /\ inflight[o].resp.status = 200
        /\ inflight[r].form.username = inflight[o].form.username
        /\ get_user_by_username(users, inflight[r].form.username).refresh_token
                # inflight[r].resp.refresh_token

----------------------------------------------------------------------------
(* C21: get_email_from_token does not discriminate by kind: for every      *)
(* validly signed, unexpired token carrying a sub claim it returns that    *)
(* sub, also for an access or refresh token; so reset_password and         *)
(* confirmed_email act on a session token exactly as on an email token     *)
(* whose sub is the same string.                                           *)

EmailFromTokenIgnoresKind ==
    (/\ resp.op = "get_email_from_token"
     /\ resp.token.key = secret_key
     /\ resp.token.exp >= Seconds(now)
     /\ resp.token.sub # NoClaim) =>
        /\ resp.email = resp.token.sub
        /\ \A other \in EmailTokens :
                (other.sub = resp.token.sub /\ other.exp >= Seconds(now)) =>
                    \A db \in {users, {[u EXCEPT !.confirmed = FALSE] : u \in users}} :
                        /\ confirmed_email(db, resp.token, now)
                                = confirmed_email(db, other, now)
                        /\ \A password \in Passwords :
                                reset_password(db, [token |-> resp.token,
                                                    password |-> password], now)
                                    = reset_password(db, [token |-> other,
                                                          password |-> password], now)

SessionTokenReadAsEmail ==
    /\ resp.op = "get_email_from_token"
    /\ resp.token.token_type = "refresh"
    /\ resp.email = "a"
    /\ \E u \in users : u.email = resp.email

(* C28: a session cannot be extended past its refresh token: every access  *)
(* token a refresh returns has iat no later than the exp of the refresh    *)
(* token presented, hence exp no later than that exp plus the access TTL,  *)
(* and the refresh token is returned as it was; once the clock is past the *)
(* refresh token's exp the refresh is answered 401.                        *)

ResetPasswordFrame ==
    \A data \in Presentable, password \in Passwords :
        LET h == reset_password(users, [token |-> data, password |-> password], now)
        IN  /\ \A u \in users : \E v \in h.db :
                    v = [u EXCEPT !.hashed_password = v.hashed_password]
            /\ \A v \in h.db : \E u \in users : u.id = v.id
            /\ \A token \in Presentable :
                    LET before == verify_refresh_token(token, users, now)
                        after  == verify_refresh_token(token, h.db, now)
                    IN  /\ (before = None) = (after = None)
                        /\ before # None => after.id = before.id
                        /\ get_current_user(token, h.db, now)
                                = get_current_user(token, users, now)

SessionSurvivesReset ==
    /\ resp.op = "reset_password"
    /\ resp.status = 200
    /\ \E u \in users :
            /\ u.hashed_password = get_password_hash("q")
            /\ u.refresh_token # None
            /\ verify_refresh_token(u.refresh_token, users, now) = u
            /\ \E l \in logins :
                    /\ l.refresh_token = u.refresh_token
                    /\ get_current_user(l.access_token, users, now).status = 200

(* C30: GET /me serves the cached profile only while the entry for that    *)
(* user id is younger than 60 seconds; at 60 seconds or more, or without   *)
(* an entry, it answers with the profile of the authenticated user as it   *)
(* is now and overwrites the entry with it and the current time.  So every *)
(* response is a profile read less than 60 seconds before, and no other    *)
(* operation, an avatar update included, changes or drops an entry.        *)

CacheServedWhileYoung ==
    [][/\ resp'.op = "me" =>
            \A token \in ProfileTokens : Me(token) =>
                LET user == repo_get_user_by_username(users, token.sub)
                    entry == cache[user.id]
                IN  IF entry # None /\ now - entry.timestamp < CACHE_EXPIRATION * TicksPerSecond
                        THEN /\ resp'.data = entry.data
                             /\ cache' = cache
                        ELSE /\ resp'.data = UserResponse(user)
                             /\ cache'[user.id] = [data |-> UserResponse(user),
                                                    timestamp |-> now]
                             /\ \A id \in UserIds \ {user.id} : cache'[id] = cache[id]
       /\ (\E token \in ProfileTokens, url \in Urls : UpdateAvatar(token, url))
            => cache' = cache
       /\ (\E d \in CacheSteps : TickCache(d)) => cache' = cache]_vars

StaleProfileServed ==
    /\ resp.op = "me"
    /\ resp.status = 200
    /\ cache[resp.id] # None
    /\ now - cache[resp.id].timestamp = CacheStep
    /\ resp.data = cache[resp.id].data
    /\ \E u \in users : u.id = resp.id /\ u.avatar # resp.data.avatar

(* C22: the confirmed flag is monotonic: a user whose confirmed is true     *)
(* has it true after every step (register, mail requests, confirmation,    *)
(* login, refresh, password reset), and an avatar update, whoever is       *)
(* allowed to make it, leaves every confirmed flag as it was.              *)

ConfirmedNeverReset ==
    [][/\ \A u \in users : u.confirmed =>
            \E v \in users' : v.id = u.id /\ v.confirmed
       /\ \A token \in Presentable, url \in Urls :
            \A db \in {users, {[u EXCEPT !.user_role = "admin"] : u \in users}} :
                \A u \in db :
                    \E v \in update_avatar_user(db, token, url, now).db :
                        v.id = u.id /\ v.confirmed = u.confirmed]_vars

ConfirmedAfterReset ==
    /\ resp.op = "request_email"
    /\ \E u \in users :
            /\ u.confirmed
            /\ u.refresh_token # None
            /\ u.hashed_password = get_password_hash("q")
            /\ \E token \in Presentable :
                    \E v \in update_avatar_user({[u EXCEPT !.user_role = "admin"]},
                                                token, "url1", now).db :
                        v.avatar = "url1"

(* C23 as stated: POST /request_email gives one and the same message       *)
(* whenever it queues no verification email, for an unknown email and for  *)
(* a confirmed account alike.                                              *)

LoginNeedsConfirmation ==
    [][/\ \A form \in LoginForms :
            (Login(form) /\ resp'.op = "login" /\ resp'.status = 200) =>
                \E u \in users : u.username = form.username /\ u.confirmed
       /\ \A l \in logins' :
            \E u \in users' : u.username = l.username /\ u.confirmed
       /\ \A u \in users' : u.refresh_token # None => u.confirmed
       /\ \A v \in users' :
            (v.confirmed /\ ~\E u \in users : u.id = v.id /\ u.confirmed) =>
                /\ resp'.op = "confirmed_email"
                /\ resp'.status = 200
                /\ resp'.detail = "Email confirmed!"
                /\ \E token \in Presentable :
                        /\ ConfirmedEmail(token)
                        /\ get_email_from_token(token, now) = v.email]_vars

LoginAfterResentMail ==
    /\ resp.op = "login"
    /\ resp.status = 200
    /\ Cardinality(outbox) >= 2
    /\ \E u \in users : u.confirmed /\ u.refresh_token = resp.refresh_token

(* C24: a POST /register that finds its email or its username in the table *)
(* is answered 409 "Account already exists", creates no user and queues no *)
(* email; rows are never removed, so what exists when a request arrives is *)
(* found by its lookups; and after any interleaving of register requests   *)
(* no two users share a username or an email, and only a request answered  *)
(* 201 has added a user or queued an email.                                *)

RegisterKeepsUnique ==
    [][/\ \A r \in Requests, body \in RegisterForms :
            (RegisterStart(r, body) /\ get_user_by_email(users, body.email) # None) =>
                /\ inflight'[r].pc = "done"
                /\ inflight'[r].resp = Response("register", 409, "Account already exists")
                /\ users' = users
                /\ queue' = queue
       /\ \A r \in Requests :
            (/\ RegisterCheckUsername(r)
             /\ get_user_by_username(users, inflight[r].form.username) # None) =>
                /\ inflight'[r].pc = "done"
                /\ inflight'[r].resp = Response("register", 409, "Account already exists")
                /\ users' = users
                /\ queue' = queue
       /\ users \subseteq users'
       /\ \A u \in users', v \in users' :
            (u.username = v.username \/ u.email = v.email) => u = v
       /\ \A r \in Requests :
            (/\ inflight'[r] # inflight[r]
             /\ ~(inflight'[r].pc = "done" /\ inflight'[r].resp.status = 201)) =>
                /\ users' = users
                /\ queue' = queue]_vars

RegistersRaced ==
    /\ \A r \in Requests : inflight[r].pc = "done"
    /\ inflight[1].resp.status = 201
    /\ inflight[2].resp.status = 500
    /\ inflight[2].resp.detail = IntegrityError
    /\ inflight[1].form.email = inflight[2].form.email
    /\ Cardinality(users) = 1
    /\ Cardinality(queue) = 1

(* C25: a confirmation request whose token does not verify (signed with    *)
(* another key, or expired) is answered 400 "Verification error" and       *)
(* confirms nobody: get_email_from_token gives None, the lookup by it      *)
(* finds no user, and the table is left as it was.                         *)

UnverifiedTokenConfirmsNobody ==
    [][\A r \in Requests, token \in Presentable :
        (/\ ConfirmStart(r, token)
         /\ (token.key # secret_key \/ token.exp < Seconds(now))) =>
            /\ get_email_from_token(token, now) = NoClaim
            /\ get_user_by_email(users, get_email_from_token(token, now)) = None
            /\ inflight'[r].pc = "done"
            /\ inflight'[r].resp = Response("confirmed_email", 400, "Verification error")
            /\ resp' = inflight'[r].resp
            /\ users' = users
            /\ confirmed_email(users, token, now)
                    = Handled(users, inflight'[r].resp, {})]_vars

ExpiredTokenRejected ==
    \E r \in Requests :
        /\ inflight[r].pc = "done"
        /\ inflight[r].form.key = secret_key
        /\ inflight[r].form.exp < Seconds(now)
        /\ inflight[r].resp.status = 400
        /\ \E u \in users : u.email = inflight[r].form.sub /\ ~u.confirmed

(* C26: for every user, over all confirmation requests for that user in    *)
(* any interleaving, "Email confirmed!" is returned at most once.          *)

ConfirmedAtMostOnce ==
    \A r \in Requests, o \in Requests :
        (/\ inflight[r].pc = "done"
         /\ inflight[o].pc = "done"
         /\ inflight[r].resp.status = 200
         /\ inflight[o].resp.status = 200
         /\ inflight[r].form.sub = inflight[o].form.sub) => r = o

====
